---- MODULE Spec2Model ----
(***************************************************************************)
(* camera_watchdog.py: a watchdog that maps every configured camera device *)
(* path to its USB bus id (live detection first, the cache file second)    *)
(* and then polls the device nodes, rebinding the driver of a missing one. *)
(***************************************************************************)
EXTENDS Integers, Sequences, FiniteSets, TLC

\* ------------------------------------------------------------------ bounds
\* Most entries the [plugin] section of the configuration holds.
MaxEntries == 2

\* ------------------------------------------------------------------ values
Paths == {"/dev/video0", "/dev/video1"}
BusIds == {"1-2:1.0", "1-3:1.0"}
None == "None"

\* What a path is to os.path.exists, which follows links: nothing (or a
\* symbolic link whose target is gone), a device node, a symbolic link to an
\* existing node.
NodeKinds == {"absent", "node", "link"}

\* What `udevadm info -q path -n <device>` gives: a non-zero exit, a path
\* without a bus-id token, or a path holding the token.
UdevOutcomes == {"fail", "nomatch"} \cup BusIds

\* How writing the cache file ends: written, open() refused, or the write
\* failed after open() truncated the file.
SaveOutcomes == {"ok", "open_failed", "write_failed"}

ReturnCodes == {0, 1}

EmptyMap == [x \in {} |-> None]

\* Every dict {path: bus id} over Paths.
Mappings == UNION {[S -> BusIds] : S \in SUBSET Paths}

RECURSIVE SeqsUpTo(_, _)
SeqsUpTo(S, n) ==
    IF n = 0 THEN {<<>>}
    ELSE LET shorter == SeqsUpTo(S, n - 1)
         IN  shorter \cup {Append(s, x) : s \in shorter, x \in S}

\* An entry of the [plugin] section: whether its key starts with "camera",
\* and the path of the device=<path> token of its value (None: no token).
IniEntries == [camera : BOOLEAN, device : Paths \cup {None}]

\* What the configuration source can be: unreadable or unparseable, or a
\* [plugin] section of entries.
IniSources ==
    {[ok |-> FALSE, plugin |-> <<>>]}
    \cup {[ok |-> TRUE, plugin |-> s] : s \in SeqsUpTo(IniEntries, MaxEntries)}

VARIABLES
    argv_test,      \* "--test" in sys.argv
    fs,             \* the filesystem: Paths -> NodeKinds
    cacheFile,      \* CACHE_FILE: [kind, map]
    pc,             \* where main() is
    devices,        \* build_camera_map: devices
    cache,          \* build_camera_map: cache
    camera_map,     \* build_camera_map: camera_map / main: CAMERA_MAP (insertion order)
    cache_updated,  \* build_camera_map: cache_updated
    i,              \* build_camera_map: position of the for loop
    j,              \* main / test_mode: position of the for loop over CAMERA_MAP
    dev,            \* main / test_mode: loop variable dev
    bus_id,         \* main / test_mode: loop variable bus_id
    rebind_ret,     \* what the last rebind_device call did and returned
    loaded,         \* history: what load_cache returned
    trace,          \* history: one record per iteration of build_camera_map's loop
    saved,          \* history: the save_cache call of build_camera_map
    cycle,          \* history: per CAMERA_MAP entry, what the current poll cycle did
    unsaved         \* history: the paths whose new cache entry the last failed
                    \* save_cache did not write

vars == <<argv_test, fs, cacheFile, pc, devices, cache, camera_map,
          cache_updated, i, j, dev, bus_id, rebind_ret, loaded, trace, saved, cycle,
          unsaved>>

env_vars == <<argv_test, fs, cacheFile, unsaved>>
build_vars == <<devices, cache, camera_map, cache_updated, i, loaded, trace, saved>>
loop_vars == <<j, dev, bus_id, rebind_ret, cycle>>

\* ------------------------------------------------------------ python dicts
\* CAMERA_MAP is a dict iterated in insertion order: a sequence of entries
\* with distinct keys.
DictKeys(m) == {m[k].dev : k \in 1..Len(m)}

DictGet(m, d) ==
    IF d \in DictKeys(m)
    THEN (m[CHOOSE k \in 1..Len(m) : m[k].dev = d]).bus
    ELSE None

DictSet(m, d, b) ==
    IF d \in DictKeys(m)
    THEN [k \in 1..Len(m) |-> IF m[k].dev = d THEN [dev |-> d, bus |-> b] ELSE m[k]]
    ELSE Append(m, [dev |-> d, bus |-> b])

\* cache is a dict whose order nobody reads: a function on its keys.
CacheGet(c, d) == IF d \in DOMAIN c THEN c[d] ELSE None

\* Mutant: dict.setdefault, which keeps the entry a key already has.
CacheSetDefault(c, d, b) ==
    [x \in (DOMAIN c) \cup {d} |-> IF x \in DOMAIN c THEN c[x] ELSE b]

CacheSet(c, d, b) == [x \in (DOMAIN c) \cup {d} |-> IF x = d THEN b ELSE c[x]]

\* ------------------------------------------------------- parse_camera_devices
RECURSIVE CameraDevices(_)
CameraDevices(plugin) ==
    IF plugin = <<>> THEN <<>>
    ELSE IF Head(plugin).camera /\ Head(plugin).device # None
         THEN <<Head(plugin).device>> \o CameraDevices(Tail(plugin))
         ELSE CameraDevices(Tail(plugin))

ParseCameraDevices(src) == IF src.ok THEN CameraDevices(src.plugin) ELSE <<>>

\* ------------------------------------------------------- load_cache / save_cache
FileKeys(file) == IF file.kind = "json" THEN DOMAIN file.map ELSE {}

LoadCache(file, read_ok) ==
    IF file.kind = "absent" THEN EmptyMap
    ELSE IF file.kind = "json" /\ read_ok THEN file.map
    ELSE EmptyMap

\* Mutant: save_cache without its try/except.
SaveCacheRaising(file, c, outcome) ==
    [file   |-> CASE outcome = "ok" -> [kind |-> "json", map |-> c]
                  [] outcome = "open_failed" -> file
                  [] outcome = "write_failed" -> [kind |-> "corrupt", map |-> EmptyMap],
     raised |-> outcome # "ok"]

SaveCache(file, c, outcome) ==
    [file   |-> CASE outcome = "ok" -> [kind |-> "json", map |-> c]
                  [] outcome = "open_failed" -> file
                  [] outcome = "write_failed" -> [kind |-> "corrupt", map |-> EmptyMap],
     raised |-> FALSE]

\* ------------------------------------------------------- get_bus_id
GetBusId(udev) == IF udev \in {"fail", "nomatch"} THEN None ELSE udev

\* ------------------------------------------------------- device_exists
DeviceExists(kind) ==
    IF kind = "absent" THEN FALSE        \* `if not os.path.exists(device_path)`
    ELSE IF kind = "link" THEN TRUE      \* the resolved target exists, os.stat succeeds
    ELSE TRUE                            \* os.stat succeeds

\* ------------------------------------------------------- build_camera_map
\* Mutant: `device in cache and cache[device] != bus_id`.
CacheChangedIfPresent(c, device, b) == device \in DOMAIN c /\ c[device] # b

\* `if cache.get(device) != bus_id`
CacheChanged(c, device, b) == CacheGet(c, device) # b

\* Mutant: a node whose bus id is not detected falls back to the cache.
ResolveFallsBack(device, exists, udev, c, m, upd) ==
    IF exists /\ GetBusId(udev) # None
    THEN LET b == GetBusId(udev)
         IN  [camera_map |-> DictSet(m, device, b),
              cache |-> IF CacheChanged(c, device, b) THEN CacheSet(c, device, b) ELSE c,
              cache_updated |-> IF CacheChanged(c, device, b) THEN TRUE ELSE upd,
              bus_id |-> b, kind |-> "live"]
    ELSE IF device \in DOMAIN c
         THEN [camera_map |-> DictSet(m, device, c[device]),
               cache |-> c, cache_updated |-> upd,
               bus_id |-> c[device], kind |-> IF exists THEN "undetected" ELSE "cached"]
         ELSE [camera_map |-> m, cache |-> c, cache_updated |-> upd,
               bus_id |-> None, kind |-> IF exists THEN "undetected" ELSE "uncached"]

\* Mutant: the cache fallback marks the cache updated.
ResolveMarksFallback(device, exists, udev, c, m, upd) ==
    IF exists
    THEN LET b == GetBusId(udev)
         IN  IF b # None
             THEN [camera_map |-> DictSet(m, device, b),
                   cache |-> IF CacheChanged(c, device, b) THEN CacheSet(c, device, b) ELSE c,
                   cache_updated |-> IF CacheChanged(c, device, b) THEN TRUE ELSE upd,
                   bus_id |-> b, kind |-> "live"]
             ELSE [camera_map |-> m, cache |-> c, cache_updated |-> upd,
                   bus_id |-> None, kind |-> "undetected"]
    ELSE IF device \in DOMAIN c
         THEN [camera_map |-> DictSet(m, device, c[device]),
               cache |-> c, cache_updated |-> TRUE,
               bus_id |-> c[device], kind |-> "cached"]
         ELSE [camera_map |-> m, cache |-> c, cache_updated |-> upd,
               bus_id |-> None, kind |-> "uncached"]

\* Mutant: a node whose bus id is not detected loses its cache entry.
ResolveDropsUndetected(device, exists, udev, c, m, upd) ==
    IF exists
    THEN LET b == GetBusId(udev)
         IN  IF b # None
             THEN [camera_map |-> DictSet(m, device, b),
                   cache |-> IF CacheChanged(c, device, b) THEN CacheSet(c, device, b) ELSE c,
                   cache_updated |-> IF CacheChanged(c, device, b) THEN TRUE ELSE upd,
                   bus_id |-> b, kind |-> "live"]
             ELSE [camera_map |-> m,
                   cache |-> [x \in (DOMAIN c) \ {device} |-> c[x]],
                   cache_updated |-> IF device \in DOMAIN c THEN TRUE ELSE upd,
                   bus_id |-> None, kind |-> "undetected"]
    ELSE IF device \in DOMAIN c
         THEN [camera_map |-> DictSet(m, device, c[device]),
               cache |-> c, cache_updated |-> upd,
               bus_id |-> c[device], kind |-> "cached"]
         ELSE [camera_map |-> m, cache |-> c, cache_updated |-> upd,
               bus_id |-> None, kind |-> "uncached"]

\* One iteration of the for loop over devices: the new camera_map, cache and
\* cache_updated, the bus id found, and which branch was taken.
Resolve(device, exists, udev, c, m, upd) ==
    IF exists
    THEN LET b == GetBusId(udev)
         IN  IF b # None
             THEN [camera_map |-> DictSet(m, device, b),
                   cache |-> IF CacheChanged(c, device, b) THEN CacheSet(c, device, b) ELSE c,
                   cache_updated |-> IF CacheChanged(c, device, b) THEN TRUE ELSE upd,
                   bus_id |-> b, kind |-> "live"]
             ELSE [camera_map |-> m, cache |-> c, cache_updated |-> upd,
                   bus_id |-> None, kind |-> "undetected"]
    ELSE IF device \in DOMAIN c
         THEN [camera_map |-> DictSet(m, device, c[device]),
               cache |-> c, cache_updated |-> upd,
               bus_id |-> c[device], kind |-> "cached"]
         ELSE [camera_map |-> m, cache |-> c, cache_updated |-> upd,
               bus_id |-> None, kind |-> "uncached"]

\* build_camera_map(): `if cache_updated:` before save_cache(cache).
\* Mutant: the cache is never saved.
ShouldSaveNever(upd) == FALSE

ShouldSave(upd) == upd

\* The paths whose cache entry the iterations recorded in tr have set.
Changed(tr) == {tr[k].dev : k \in {n \in 1..Len(tr) : tr[n].changed}}

NoSave == [called |-> FALSE, arg |-> EmptyMap, outcome |-> None]

\* ------------------------------------------------------- rebind_device
\* subprocess.run raises CalledProcessError only with check=True.
RunRaises(rc, check) == check /\ rc # 0

\* `echo "{bus_id}" | sudo tee /sys/bus/usb/drivers/uvcvideo/<op>`
Request(op, b) == [op |-> op, bus |-> b]

\* Mutant: the unbind command runs with check=True.
UnbindCheckTrue == TRUE

UnbindCheck == FALSE
BindCheck == FALSE

\* The requests issued (each for bus id b), their exit codes (-1: not run),
\* the value returned, and whether an exception left the function.
RebindDevice(b, unbind_rc, bind_rc) ==
    IF RunRaises(unbind_rc, UnbindCheck)
    THEN [bus |-> b, cmds |-> <<Request("unbind", b)>>, unbind_rc |-> unbind_rc, bind_rc |-> -1,
          ret |-> FALSE, raised |-> FALSE]
    ELSE IF RunRaises(bind_rc, BindCheck)
    THEN [bus |-> b, cmds |-> <<Request("unbind", b), Request("bind", b)>>,
          unbind_rc |-> unbind_rc,
          bind_rc |-> bind_rc, ret |-> FALSE, raised |-> FALSE]
    ELSE [bus |-> b, cmds |-> <<Request("unbind", b), Request("bind", b)>>,
          unbind_rc |-> unbind_rc,
          bind_rc |-> bind_rc, ret |-> TRUE, raised |-> FALSE]

NoRebind ==
    [bus |-> None, cmds |-> <<>>, unbind_rc |-> -1, bind_rc |-> -1,
     ret |-> FALSE, raised |-> FALSE]

\* ------------------------------------------------------- main
\* Mutant: the empty map does not end main().
NotCameraMapNever(m) == FALSE

\* `if not CAMERA_MAP: return`
NotCameraMap(m) == m = <<>>

\* Mutant: the loop rebinds without looking.
MissingAlways(kind) == TRUE

\* Mutant: `if device_exists(dev)`.
MissingInverted(kind) == DeviceExists(kind)

\* `if not device_exists(dev)`: the loop rebinds.
Missing(kind) == ~DeviceExists(kind)

\* History of a poll cycle that begins: nothing checked, nothing rebound;
\* `before` tells whether the cycle just ended rebound the entry.
FreshCycle(m) ==
    [k \in 1..Len(m) |-> [seen |-> "unchecked", rebound |-> None, before |-> FALSE]]

NextCycle(cy) ==
    [k \in 1..Len(cy) |->
        [seen |-> "unchecked", rebound |-> None, before |-> cy[k].rebound # None]]

\* ------------------------------------------------------------------ Init
Init ==
    /\ argv_test \in BOOLEAN
    /\ fs \in [Paths -> NodeKinds]
    /\ cacheFile \in {[kind |-> "absent", map |-> EmptyMap],
                      [kind |-> "corrupt", map |-> EmptyMap]}
                     \cup {[kind |-> "json", map |-> mp] : mp \in Mappings}
    /\ pc = "main"
    /\ devices = <<>>
    /\ cache = EmptyMap
    /\ camera_map = <<>>
    /\ cache_updated = FALSE
    /\ i = 1
    /\ j = 1
    /\ dev = None
    /\ bus_id = None
    /\ rebind_ret = NoRebind
    /\ loaded = EmptyMap
    /\ trace = <<>>
    /\ saved = NoSave
    /\ cycle = <<>>
    /\ unsaved = {}

\* --------------------------------------------------------------- actions
\* build_camera_map() has returned camera_map: its other locals are gone, and
\* with them the history of the call.
BuildReturned ==
    /\ UNCHANGED camera_map
    /\ devices' = <<>>
    /\ cache' = EmptyMap
    /\ cache_updated' = FALSE
    /\ i' = 1
    /\ loaded' = EmptyMap
    /\ trace' = <<>>
    /\ saved' = NoSave

\* main(): the --test switch.
Main ==
    /\ pc = "main"
    /\ pc' = IF argv_test THEN "test_mode" ELSE "build"
    /\ UNCHANGED <<env_vars, build_vars, loop_vars>>

\* test_mode(): parse, and return when no device is configured.
TestParse ==
    /\ pc = "test_mode"
    /\ \E src \in IniSources :
         pc' = IF ParseCameraDevices(src) = <<>> THEN "exit" ELSE "build"
    /\ UNCHANGED <<env_vars, build_vars, loop_vars>>

\* build_camera_map(): parse_camera_devices(), load_cache(), the empty map.
BuildBegin ==
    /\ pc = "build"
    /\ \E read_ok \in BOOLEAN :
         /\ cache' = LoadCache(cacheFile, read_ok)
         /\ loaded' = LoadCache(cacheFile, read_ok)
    /\ \E src \in IniSources : devices' = ParseCameraDevices(src)
    /\ camera_map' = <<>>
    /\ cache_updated' = FALSE
    /\ i' = 1
    /\ trace' = <<>>
    /\ saved' = NoSave
    /\ pc' = "build_loop"
    /\ UNCHANGED <<env_vars, loop_vars>>

\* build_camera_map(): one iteration of `for device in devices`.
BuildStep ==
    /\ pc = "build_loop"
    /\ i <= Len(devices)
    /\ \E udev \in UdevOutcomes :
         LET device == devices[i]
             exists == DeviceExists(fs[device])
             r == Resolve(device, exists, udev, cache, camera_map, cache_updated)
         IN  /\ camera_map' = r.camera_map
             /\ cache' = r.cache
             /\ cache_updated' = r.cache_updated
             /\ trace' = Append(trace, [dev |-> device, kind |-> r.kind, bus |-> r.bus_id,
                                        changed |-> r.cache # cache])
    /\ i' = i + 1
    /\ UNCHANGED <<env_vars, pc, devices, loaded, saved, loop_vars>>

\* build_camera_map(): `if cache_updated: save_cache(cache)` and the return.
BuildEnd ==
    /\ pc = "build_loop"
    /\ i > Len(devices)
    /\ IF ShouldSave(cache_updated)
       THEN \E outcome \in SaveOutcomes :
              LET r == SaveCache(cacheFile, cache, outcome)
              IN  /\ cacheFile' = r.file
                  /\ saved' = [called |-> TRUE, arg |-> cache, outcome |-> outcome]
                  /\ unsaved' = IF outcome = "ok" THEN unsaved
                                ELSE Changed(trace)
                  /\ pc' = IF r.raised THEN "crashed"
                           ELSE IF argv_test THEN "test_check" ELSE "main_check"
       ELSE /\ UNCHANGED <<cacheFile, saved, unsaved>>
            /\ pc' = IF argv_test THEN "test_check" ELSE "main_check"
    /\ UNCHANGED <<argv_test, fs, devices, cache, camera_map, cache_updated, i,
                   loaded, trace, loop_vars>>

\* main(): `if not CAMERA_MAP: return`, else into `while True`.
MainCheck ==
    /\ pc = "main_check"
    /\ IF NotCameraMap(camera_map)
       THEN pc' = "exit" /\ UNCHANGED <<j, cycle, build_vars>>
       ELSE pc' = "poll" /\ j' = 1 /\ cycle' = FreshCycle(camera_map) /\ BuildReturned
    /\ UNCHANGED <<env_vars, dev, bus_id, rebind_ret>>

\* main(): one iteration of `for dev, bus_id in CAMERA_MAP.items()` up to the
\* existence check.
PollCheck ==
    /\ pc = "poll"
    /\ j <= Len(camera_map)
    /\ dev' = camera_map[j].dev
    /\ bus_id' = camera_map[j].bus
    /\ rebind_ret' = NoRebind
    /\ cycle' = [cycle EXCEPT ![j].seen =
                   IF DeviceExists(fs[camera_map[j].dev]) THEN "present" ELSE "missing"]
    /\ IF Missing(fs[camera_map[j].dev])
       THEN pc' = "rebind" /\ j' = j
       ELSE pc' = "poll" /\ j' = j + 1
    /\ UNCHANGED <<env_vars, build_vars>>

\* Mutant: after the rebind the loop detects the bus id again and stores it.
RebindRefreshing ==
    /\ pc = "rebind"
    /\ \E unbind_rc \in ReturnCodes, bind_rc \in ReturnCodes :
         LET r == RebindDevice(bus_id, unbind_rc, bind_rc)
         IN  /\ rebind_ret' = r
             /\ pc' = IF r.raised THEN "crashed" ELSE "poll"
    /\ \E udev \in BusIds :
         /\ camera_map' = DictSet(camera_map, dev, udev)
         /\ cacheFile' = [kind |-> "json",
                          map |-> CacheSet(LoadCache(cacheFile, TRUE), dev, udev)]
    /\ cycle' = [cycle EXCEPT ![j].rebound = bus_id]
    /\ j' = j + 1
    /\ UNCHANGED <<argv_test, fs, unsaved, devices, cache, cache_updated, i, loaded,
                   trace, saved, dev, bus_id>>

\* main(): rebind_device(bus_id), whose result is dropped.
Rebind ==
    /\ pc = "rebind"
    /\ \E unbind_rc \in ReturnCodes, bind_rc \in ReturnCodes :
         LET r == RebindDevice(bus_id, unbind_rc, bind_rc)
         IN  /\ rebind_ret' = r
             /\ pc' = IF r.raised THEN "crashed" ELSE "poll"
    /\ cycle' = [cycle EXCEPT ![j].rebound = bus_id]
    /\ j' = j + 1
    /\ UNCHANGED <<env_vars, build_vars, dev, bus_id>>

\* main(): the for loop is over; time.sleep(5) and the next `while True` turn.
Sleep ==
    /\ pc = "poll"
    /\ j > Len(camera_map)
    /\ j' = 1
    /\ cycle' = NextCycle(cycle)
    /\ rebind_ret' = NoRebind
    /\ UNCHANGED <<env_vars, build_vars, pc, dev, bus_id>>

\* test_mode(): `if not CAMERA_MAP: return`, else the status listing.
TestCheck ==
    /\ pc = "test_check"
    /\ IF NotCameraMap(camera_map)
       THEN pc' = "exit" /\ UNCHANGED <<j, cycle, build_vars>>
       ELSE pc' = "test_status" /\ j' = 1 /\ cycle' = FreshCycle(camera_map) /\ BuildReturned
    /\ UNCHANGED <<env_vars, dev, bus_id, rebind_ret>>

\* test_mode(): one line of the status listing.
TestStatus ==
    /\ pc = "test_status"
    /\ j <= Len(camera_map)
    /\ dev' = camera_map[j].dev
    /\ bus_id' = camera_map[j].bus
    /\ cycle' = [cycle EXCEPT ![j].seen =
                   IF DeviceExists(fs[camera_map[j].dev]) THEN "present" ELSE "missing"]
    /\ j' = j + 1
    /\ UNCHANGED <<env_vars, build_vars, pc, rebind_ret>>

\* Mutant: main() lacks the `return` after test_mode() and goes on to monitor.
TestDoneFallsThrough ==
    /\ pc = "test_status"
    /\ j > Len(camera_map)
    /\ pc' = "main_check"
    /\ UNCHANGED <<env_vars, build_vars, loop_vars>>

\* test_mode(): the listing is over; main() returns.
TestDone ==
    /\ pc = "test_status"
    /\ j > Len(camera_map)
    /\ pc' = "exit"
    /\ UNCHANGED <<env_vars, build_vars, loop_vars>>

\* The world: a device node appears, disappears, or changes kind.
Env ==
    /\ \E p \in Paths, k \in NodeKinds :
         /\ k # fs[p]
         /\ fs' = [fs EXCEPT ![p] = k]
    /\ UNCHANGED <<argv_test, cacheFile, unsaved, pc, build_vars, loop_vars>>

Step ==
    \/ Main
    \/ TestParse
    \/ BuildBegin
    \/ BuildStep
    \/ BuildEnd
    \/ MainCheck
    \/ PollCheck
    \/ Rebind
    \/ Sleep
    \/ TestCheck
    \/ TestStatus
    \/ TestDone

Next == Step \/ Env

Spec == Init /\ [][Next]_vars

\* The process is scheduled and its external commands return.
FairSpec == Spec /\ WF_vars(Step)

\* ------------------------------------------------------- one run after another
\* `if __name__ == "__main__": main()`: the process ends, or is stopped, and
\* the service is started again.  Only the filesystem and the cache file
\* outlive the process.
Restart ==
    /\ pc # "main"
    /\ pc' = "main"
    /\ \E t \in BOOLEAN : argv_test' = t
    /\ devices' = <<>>
    /\ cache' = EmptyMap
    /\ camera_map' = <<>>
    /\ cache_updated' = FALSE
    /\ i' = 1
    /\ j' = 1
    /\ dev' = None
    /\ bus_id' = None
    /\ rebind_ret' = NoRebind
    /\ loaded' = EmptyMap
    /\ trace' = <<>>
    /\ saved' = NoSave
    /\ cycle' = <<>>
    /\ UNCHANGED <<fs, cacheFile, unsaved>>

RestartSpec == Init /\ [][Next \/ Restart]_vars

\* ------------------------------------------------- save_cache(load_cache())
\* The cache store on its own: any cache file, any filesystem around it.
RoundTripInit ==
    /\ argv_test = FALSE
    /\ fs \in [Paths -> NodeKinds]
    /\ cacheFile \in {[kind |-> "absent", map |-> EmptyMap],
                      [kind |-> "corrupt", map |-> EmptyMap]}
                     \cup {[kind |-> "json", map |-> mp] : mp \in Mappings}
    /\ pc = "round_trip"
    /\ devices = <<>>
    /\ cache = EmptyMap
    /\ camera_map = <<>>
    /\ cache_updated = FALSE
    /\ i = 1
    /\ j = 1
    /\ dev = None
    /\ bus_id = None
    /\ rebind_ret = NoRebind
    /\ loaded = EmptyMap
    /\ trace = <<>>
    /\ saved = NoSave
    /\ cycle = <<>>
    /\ unsaved = {}

\* save_cache(load_cache())
RoundTrip ==
    /\ pc = "round_trip"
    /\ \E read_ok \in BOOLEAN, outcome \in SaveOutcomes :
         LET c == LoadCache(cacheFile, read_ok)
             r == SaveCache(cacheFile, c, outcome)
         IN  /\ cache' = c
             /\ loaded' = c
             /\ cacheFile' = r.file
             /\ saved' = [called |-> TRUE, arg |-> c, outcome |-> outcome]
             /\ pc' = IF r.raised THEN "crashed" ELSE "round_trip"
    /\ UNCHANGED <<argv_test, fs, unsaved, devices, camera_map, cache_updated, i, trace,
                   loop_vars>>

RoundTripSpec == RoundTripInit /\ [][RoundTrip]_vars

\* ================================================================= claims
\* build_camera_map() has just returned to its caller.
AfterBuild == pc \in {"main_check", "test_check"}

\* main() is inside `while True`.
InLoop == pc \in {"poll", "rebind"}

\* The poll cycle has checked every entry and is about to sleep.
EndOfCycle == pc = "poll" /\ j > Len(camera_map)

Configured == {devices[k] : k \in 1..Len(devices)}

LiveDetected(p) == \E k \in 1..Len(trace) : trace[k].dev = p /\ trace[k].kind = "live"

NodeMissingAt(k) == trace[k].kind \in {"cached", "uncached"}

\* C1 as stated: after build_camera_map, a configured path is a key of the
\* Camera Map iff live detection of its bus id succeeded or the loaded cache
\* had an entry for it.
C1_MapIffLiveOrCached ==
    AfterBuild =>
        \A p \in Configured :
            (p \in DictKeys(camera_map)) <=> (LiveDetected(p) \/ p \in DOMAIN loaded)

\* C1 amended: every configured path is attempted, in order, and a configured
\* path is a key of the Camera Map iff some attempt found its node present
\* and detected its bus id, or found its node missing while the loaded cache
\* had an entry for it.
C1_MapIffLiveOrMissingCached ==
    AfterBuild =>
        /\ Len(trace) = Len(devices)
        /\ \A k \in 1..Len(devices) : trace[k].dev = devices[k]
        /\ \A p \in Configured :
              (p \in DictKeys(camera_map)) <=>
                  \E k \in 1..Len(trace) :
                      /\ trace[k].dev = p
                      /\ \/ trace[k].kind = "live"
                         \/ NodeMissingAt(k) /\ p \in DOMAIN loaded

\* Witness of C1: a node that exists, whose bus id was not detected, with an
\* entry in the loaded cache, is left out of the Camera Map.
C1_Witness ==
    /\ AfterBuild
    /\ \E k \in 1..Len(trace) :
          /\ trace[k].kind = "undetected"
          /\ trace[k].dev \in DOMAIN loaded
          /\ trace[k].dev \notin DictKeys(camera_map)
    /\ \E k \in 1..Len(trace) : trace[k].kind = "cached"

\* C2: rebind_device is called only for the Camera Map entry whose existence
\* check failed in this poll cycle, with the bus id the map holds for it; an
\* entry found present is not rebound in that cycle.
C2_RebindOnlyMissing ==
    /\ pc = "rebind" =>
          /\ j <= Len(camera_map)
          /\ cycle[j].seen = "missing"
          /\ dev = camera_map[j].dev
          /\ bus_id = camera_map[j].bus
    /\ \A k \in 1..Len(cycle) :
          /\ cycle[k].rebound # None =>
                cycle[k].seen = "missing" /\ cycle[k].rebound = camera_map[k].bus
          /\ cycle[k].seen = "present" => cycle[k].rebound = None
    /\ rebind_ret.bus # None =>
          \E k \in 1..Len(cycle) : cycle[k].rebound = rebind_ret.bus

\* Witness of C2: a cycle that found one device present and one missing has
\* rebound the missing one only.
C2_Witness ==
    /\ EndOfCycle
    /\ \E k1, k2 \in 1..Len(cycle) :
          /\ cycle[k1].seen = "present" /\ cycle[k1].rebound = None
          /\ cycle[k2].seen = "missing" /\ cycle[k2].rebound = camera_map[k2].bus

\* C3: a Camera Map entry whose device stays missing is rebound in every
\* poll cycle, whatever the earlier rebinds returned (again and again, as
\* long as the process runs), and a cycle that finds the device present does
\* not rebind it.
C3_LevelTriggered ==
    /\ \A p \in Paths :
          <>[](InLoop /\ p \in DictKeys(camera_map) /\ ~DeviceExists(fs[p]))
          => []<>(pc = "rebind" /\ dev = p /\ bus_id = DictGet(camera_map, p))
    /\ [](EndOfCycle =>
            \A k \in 1..Len(cycle) :
                /\ cycle[k].seen # "unchecked"
                /\ cycle[k].seen = "missing" => cycle[k].rebound = camera_map[k].bus
                /\ cycle[k].seen = "present" => cycle[k].rebound = None)

\* Witness of C3: an entry rebound in the cycle before, with a failed bind,
\* is rebound again in this cycle; another one rebound before is found present
\* and left alone.
C3_Witness ==
    /\ EndOfCycle
    /\ \E k \in 1..Len(cycle) : cycle[k].before /\ cycle[k].rebound # None
    /\ \E k \in 1..Len(cycle) :
          cycle[k].before /\ cycle[k].seen = "present" /\ cycle[k].rebound = None

\* C4: for a configured path whose node is missing and that the loaded cache
\* has an entry for, the iteration puts the cached bus id in the Camera Map
\* and changes neither the cache nor cache_updated; save_cache is called only
\* after a live detection.
C4_CacheFallback ==
    /\ [][(/\ pc = "build_loop"
            /\ i <= Len(devices)
            /\ i' = i + 1
            /\ ~DeviceExists(fs[devices[i]])
            /\ devices[i] \in DOMAIN loaded)
           => /\ DictGet(camera_map', devices[i]) = cache[devices[i]]
              /\ cache' = cache
              /\ cache_updated' = cache_updated]_vars
    /\ [](saved.called => \E k \in 1..Len(trace) : trace[k].kind = "live")

\* Witness of C4: build_camera_map returns a map holding a bus id taken from
\* the loaded cache, and save_cache was not called.
C4_Witness ==
    /\ AfterBuild
    /\ ~saved.called
    /\ \E k \in 1..Len(trace) :
          /\ trace[k].kind = "cached"
          /\ trace[k].dev \in DOMAIN loaded
          /\ DictGet(camera_map, trace[k].dev) = loaded[trace[k].dev]

\* C5: when the node exists and the detected bus id is not what the cache
\* holds for the path, the iteration stores the detected id in the Camera Map
\* and in the cache and marks the cache updated; a build that marked the cache
\* updated has called save_cache with the whole cache before it returns.
C5_CacheRefresh ==
    /\ [][(/\ pc = "build_loop"
            /\ i <= Len(devices)
            /\ i' = i + 1
            /\ trace'[i].kind = "live"
            /\ CacheGet(cache, devices[i]) # trace'[i].bus)
           => /\ DictGet(camera_map', devices[i]) = trace'[i].bus
              /\ CacheGet(cache', devices[i]) = trace'[i].bus
              /\ \A p \in DOMAIN cache : p # devices[i] => CacheGet(cache', p) = cache[p]
              /\ cache_updated']_vars
    /\ [](AfterBuild /\ cache_updated => saved.called /\ saved.arg = cache)

\* Witness of C5: a bus id detected for a path the loaded cache did not hold,
\* and one that differs from the loaded entry, both saved with the rest.
C5_Witness ==
    /\ AfterBuild
    /\ saved.called
    /\ saved.outcome = "ok"
    /\ cacheFile.map = cache
    /\ \E k \in 1..Len(trace) :
          /\ trace[k].kind = "live"
          /\ trace[k].dev \in DOMAIN loaded
          /\ loaded[trace[k].dev] # trace[k].bus
          /\ cache[trace[k].dev] = trace[k].bus
    /\ \E k \in 1..Len(trace) :
          /\ trace[k].kind = "live"
          /\ trace[k].dev \notin DOMAIN loaded

\* C6: in monitoring mode, a build that returns an empty Camera Map ends the
\* process: the poll loop is not entered, nothing is polled or rebound, and
\* the process stays ended.
C6_EmptyMapExits ==
    /\ [](~argv_test /\ pc \notin {"main", "build", "build_loop", "main_check"}
             /\ camera_map = <<>>
          => pc = "exit" /\ dev = None /\ cycle = <<>> /\ rebind_ret = NoRebind)
    /\ [][pc = "exit" => pc' = "exit"]_vars

\* Witness of C6: devices are configured, none is resolved, main has returned.
C6_Witness ==
    /\ ~argv_test
    /\ pc = "exit"
    /\ devices # <<>>
    /\ camera_map = <<>>

\* C7: a run never removes a key from the persisted cache file.
C7_KeysNeverDeleted == [][FileKeys(cacheFile) \subseteq FileKeys(cacheFile')]_vars

\* C8: inside the monitoring loop no step changes the Camera Map or writes
\* the cache file.
C8_StaticSnapshot ==
    [][InLoop => camera_map' = camera_map /\ cacheFile' = cacheFile]_vars

\* Witness of C8: after a rebind the device is back, and a camera that is not
\* in the Camera Map has appeared.
C8_Witness ==
    /\ pc = "poll"
    /\ rebind_ret.bus # None
    /\ DeviceExists(fs[dev])
    /\ \E p \in Paths : p \notin DictKeys(camera_map) /\ DeviceExists(fs[p])

C10_ReturnsBindResult ==
    rebind_ret.bus # None => (rebind_ret.ret <=> rebind_ret.bind_rc = 0)

\* C11: with --test the process builds the Camera Map at most once, never
\* enters the monitoring loop, never calls rebind_device, whatever the status
\* listing finds, and exits.
C11_InspectNeverMonitors ==
    /\ [](argv_test =>
            /\ ~InLoop
            /\ rebind_ret = NoRebind
            /\ \A k \in 1..Len(cycle) : cycle[k].rebound = None)
    /\ [][argv_test /\ pc \in {"test_check", "test_status", "exit"}
           => pc' \in {"test_check", "test_status", "exit"}]_vars
    /\ (argv_test => <>(pc = "exit"))

\* Witness of C11: the status listing found a mapped device missing, and the
\* process has exited.
C11_Witness ==
    /\ argv_test
    /\ pc = "exit"
    /\ \E k \in 1..Len(cycle) : cycle[k].seen = "missing"

\* The mapping a cache file holds.
FileMap(file) == IF file.kind = "json" THEN file.map ELSE EmptyMap

\* The last live detection of path p in this build gave bus id b.
LastLive(p, b) ==
    \E k \in 1..Len(trace) :
        /\ trace[k].dev = p
        /\ trace[k].kind = "live"
        /\ trace[k].bus = b
        /\ \A k2 \in (k + 1)..Len(trace) :
              ~(trace[k2].dev = p /\ trace[k2].kind = "live")

\* C12 as stated: after a save_cache that failed, the process goes on with its
\* Camera Map, and the next build that detects the bus id of a path the failed
\* save left unwritten calls save_cache again.
C12_FailedSaveRetried ==
    /\ [][pc = "build_loop" /\ saved'.called /\ saved'.outcome # "ok"
           => pc' \in {"main_check", "test_check"} /\ camera_map' = camera_map]_vars
    /\ [](AfterBuild =>
            \A p \in unsaved : LiveDetected(p) => saved.called)

\* C12 amended: a save_cache that failed leaves the process running with the
\* Camera Map it built, which is not empty; every build, and so the build of
\* a later run for a path the failed save left unwritten, that detects a bus
\* id that is not the entry load_cache returned calls save_cache, and when
\* that save succeeds the file holds the last detected bus id of every
\* detected path.  A build whose detections all agree with what load_cache
\* returned calls no save.
C12_FailedSaveRetriedIfStale ==
    /\ [][pc = "build_loop" /\ saved'.called /\ saved'.outcome # "ok"
           => pc' \in {"main_check", "test_check"} /\ camera_map' = camera_map]_vars
    /\ [](AfterBuild /\ saved.called => camera_map # <<>>)
    /\ [](AfterBuild =>
            \A p \in Paths, b \in BusIds :
                LastLive(p, b) /\ CacheGet(loaded, p) # b => saved.called)
    /\ [](AfterBuild /\ saved.called /\ saved.outcome = "ok" =>
            \A p \in Paths, b \in BusIds :
                LastLive(p, b) => CacheGet(FileMap(cacheFile), p) = b)
    /\ [](AfterBuild /\ (\A k \in 1..Len(trace) :
                            trace[k].kind = "live"
                            => CacheGet(loaded, trace[k].dev) = trace[k].bus)
            => ~saved.called)

\* Witness of C12: a save failed in an earlier run; this run detected the bus
\* id of a path that save left unwritten, saved again, and the file holds it.
C12_Witness ==
    /\ AfterBuild
    /\ saved.called
    /\ saved.outcome = "ok"
    /\ \E p \in unsaved, b \in BusIds :
          /\ LastLive(p, b)
          /\ CacheGet(loaded, p) # b
          /\ CacheGet(FileMap(cacheFile), p) = b

\* No save_cache of this run has failed.
NoSaveFailure == unsaved = {}

\* C16: when build_camera_map returns, every Camera Map entry (p, b) has
\* cache[p] = b, and unless save_cache failed the cache file maps p to b;
\* so, unless save_cache failed, the bus id passed to rebind_device is the
\* one the cache file holds for the path.
C16_MapAgreesWithCache ==
    /\ AfterBuild =>
          \A k \in 1..Len(camera_map) :
              /\ CacheGet(cache, camera_map[k].dev) = camera_map[k].bus
              /\ (~saved.called \/ saved.outcome = "ok")
                 => CacheGet(FileMap(cacheFile), camera_map[k].dev) = camera_map[k].bus
    /\ InLoop /\ NoSaveFailure =>
          \A k \in 1..Len(camera_map) :
              CacheGet(FileMap(cacheFile), camera_map[k].dev) = camera_map[k].bus
    /\ pc = "rebind" /\ NoSaveFailure =>
          CacheGet(FileMap(cacheFile), dev) = bus_id

\* Witness of C16: with two paths mapped and no failed save, the second one
\* is missing and about to be rebound with the bus id the cache file holds
\* for it.
C16_Witness ==
    /\ pc = "rebind"
    /\ NoSaveFailure
    /\ Len(camera_map) = 2
    /\ j = 2
    /\ dev = camera_map[2].dev
    /\ bus_id = camera_map[2].bus
    /\ cacheFile.kind = "json"
    /\ dev \in DOMAIN cacheFile.map
    /\ cacheFile.map[dev] = bus_id

\* C13: save_cache(load_cache()) leaves the cache file holding the mapping it
\* held before the call.
C13_RoundTripKeepsMapping ==
    [][pc = "round_trip" => FileMap(cacheFile') = FileMap(cacheFile)]_vars

\* C14 as stated: a configured path whose node exists but whose bus id is not
\* detected is not in the Camera Map, and its cache entry is what was loaded.
C14_UndetectedExcluded ==
    AfterBuild =>
        \A k \in 1..Len(trace) :
            trace[k].kind = "undetected" =>
                /\ trace[k].dev \notin DictKeys(camera_map)
                /\ CacheGet(cache, trace[k].dev) = CacheGet(loaded, trace[k].dev)

\* C14 amended: an iteration that finds the node but detects no bus id leaves
\* the Camera Map, the cache and cache_updated as they are; a path whose
\* every configured entry ends so is not in the Camera Map and keeps the cache
\* entry that was loaded.
C14_UndetectedSkipped ==
    /\ [][(/\ pc = "build_loop"
            /\ i <= Len(devices)
            /\ i' = i + 1
            /\ trace'[i].kind = "undetected")
           => /\ DeviceExists(fs[devices[i]])
              /\ camera_map' = camera_map
              /\ cache' = cache
              /\ cache_updated' = cache_updated]_vars
    /\ [](AfterBuild =>
            \A p \in Configured :
                (\A k \in 1..Len(trace) : trace[k].dev = p => trace[k].kind = "undetected")
                => /\ p \notin DictKeys(camera_map)
                   /\ CacheGet(cache, p) = CacheGet(loaded, p))

\* Witness of C14: the node exists, no bus id is detected, the loaded cache
\* has an entry: the path is not mapped and the entry is still in the cache.
C14_Witness ==
    /\ AfterBuild
    /\ \E k \in 1..Len(trace) :
          /\ trace[k].kind = "undetected"
          /\ trace[k].dev \in DOMAIN loaded
          /\ trace[k].dev \notin DictKeys(camera_map)
          /\ trace[k].dev \in DOMAIN cache
          /\ cache[trace[k].dev] = loaded[trace[k].dev]

\* C15: every rebind_device(bus_id) issues the unbind request and then the
\* bind request, both for bus_id, whatever the unbind command returns.
C15_UnbindThenBind ==
    rebind_ret.bus # None =>
        /\ rebind_ret.bus = bus_id
        /\ rebind_ret.cmds = <<Request("unbind", bus_id), Request("bind", bus_id)>>

\* Witness of C15: the unbind command failed and the bind request was issued.
C15_Witness ==
    /\ rebind_ret.unbind_rc = 1
    /\ Len(rebind_ret.cmds) = 2
    /\ rebind_ret.cmds[2] = Request("bind", bus_id)

====
